---- MODULE Spec2Model ----
(***************************************************************************)
(* SumBlock: the grid / match / cascade engine of src/src/types.ts (the    *)
(* React component App and the helpers above it).                          *)
(*                                                                         *)
(* The program state is the component's eight useState cells.  One action  *)
(* of the model is one external event (a click handler or the interval     *)
(* callback) together with every render and effect pass it causes, up to   *)
(* the render after which no effect queues an update any more.             *)
(*                                                                         *)
(* Randomness.  generateId is modelled as an allocator of unused ids (the  *)
(* random 7-character strings are taken never to collide).  Math.random    *)
(* in getRandomValue and generateTarget is an input: tile values come from *)
(* a row pattern chosen per session (seed), the shuffle of generateTarget  *)
(* ranges over the rotations of the array and its count over {2,3,4}.      *)
(*                                                                         *)
(* Updater functions are run once each (React's production behaviour).     *)
(***************************************************************************)
EXTENDS Integers, Sequences, FiniteSets, TLC

(* ------------------------------ constants ------------------------------ *)

GRID_COLS == 6

GRID_ROWS == 10

INITIAL_ROWS == 4

TIME_LIMIT == 10

MENU == "MENU"

PLAYING == "PLAYING"

GAMEOVER == "GAMEOVER"

CLASSIC == "CLASSIC"

TIME == "TIME"

(* ------------------------------- bounds -------------------------------- *)

\* Clicks on tiles are delivered only while the session has made fewer than
\* MaxMatches matches (the score grows without bound otherwise) ...
MaxMatches == 2

\* ... and while no column of the grid is higher than MaxClickRows.
MaxClickRows == 4

\* The pause and back buttons of the header are pressed only while at most
\* MaxHeld tiles are selected.
MaxHeld == 0

\* The back button of the header is pressed only while the countdown has run
\* for at most MaxElapsed ticks.
MaxElapsed == 1

\* Number of row patterns (seeds) a session may draw its tile values from.
NumSeeds == 2

(* ------------------------------ variables ------------------------------ *)

VARIABLES
  status,       \* useState<GameStatus>, line 78
  mode,         \* useState<GameMode>, line 79
  blocks,       \* useState<Block[]>, line 80: sequence of [id, value, row, col]
  targetSum,    \* line 81
  selectedIds,  \* line 82: sequence of ids
  score,        \* line 83
  timeLeft,     \* line 84
  isPaused,     \* line 85
  seed,         \* the random source of getRandomValue for this session
  exiting,      \* ids of the tiles the last event removed: their buttons are
                \* still mounted while AnimatePresence plays their exit (line 345)
  matches,      \* matches made in this session
  timer,        \* whether the interval of line 189 is set (timerRef, line 86)
  log           \* what the last event and its effects did, in order

vars == <<status, mode, blocks, targetSum, selectedIds, score, timeLeft,
          isPaused, seed, exiting, matches, timer, log>>

(* ------------------------------- helpers ------------------------------- *)

Range(f) == {f[i] : i \in DOMAIN f}

Min2(a, b) == IF a <= b THEN a ELSE b

Max2(a, b) == IF a >= b THEN a ELSE b

RECURSIVE SumValues(_)
\* reduce((acc, b) => acc + b.value, 0)
SumValues(bs) == IF bs = <<>> THEN 0 ELSE Head(bs).value + SumValues(Tail(bs))

Ids(bs) == {bs[i].id : i \in DOMAIN bs}

\* the n least ids (from 1) that are not in used, in increasing order
RECURSIVE FreshFrom(_, _, _)
FreshFrom(k, n, used) ==
  IF n = 0 THEN <<>>
  ELSE IF k \in used THEN FreshFrom(k + 1, n, used)
  ELSE <<k>> \o FreshFrom(k + 1, n - 1, used)

generateId(n, used) == FreshFrom(1, n, used)

\* the row patterns getRandomValue is restricted to: every value is in 1..9
Pattern(sd) ==
  CASE sd = 1 -> <<1, 1, 2, 2, 2, 2>>
    [] sd = 2 -> <<4, 4, 4, 4, 4, 4>>
    [] OTHER -> <<2, 2, 2, 2, 3, 9>>

getRandomValue(sd, col) == Pattern(sd)[col + 1]

(* --------------------------- the pure helpers --------------------------- *)

\* shuffled.slice(0, count), lines 72-73, where shuffled is the array
\* [...blocks].sort(() => 0.5 - Math.random()): the shuffles are restricted
\* to the rotations of blocks, off being the number of places rotated
shuffledSlice(bs, count, off) ==
  [k \in 1..Min2(count, Len(bs)) |-> bs[((k - 1 + off) % Len(bs)) + 1]]

\* generateTarget without the floor of line 74
generateTargetNoFloor(bs, count, off) ==
  IF Len(bs) = 0 THEN 10
  ELSE LET sum == SumValues(shuffledSlice(bs, count, off))
       IN Min2(sum, 45)

\* generateTarget, lines 69-75; count and off are its two random draws
generateTarget(bs, count, off) ==
  IF Len(bs) = 0 THEN 10
  ELSE LET sum == SumValues(shuffledSlice(bs, count, off))
       IN Max2(10, Min2(sum, 45))

\* Math.floor(Math.random() * 3) + 2, line 71
Counts == {2, 3, 4}

\* every value generateTarget(bs) may return
TargetChoices(bs) ==
  {generateTarget(bs, count, off) :
     count \in Counts, off \in 0..Max2(Len(bs) - 1, 0)}

\* insert b into s (sorted by descending row) behind the entries that do not
\* sort after it: Array.prototype.sort is stable
RECURSIVE InsertByRow(_, _)
InsertByRow(b, s) ==
  IF s = <<>> THEN <<b>>
  ELSE IF Head(s).row >= b.row THEN <<Head(s)>> \o InsertByRow(b, Tail(s))
  ELSE <<b>> \o s

\* .sort((a, b) => b.row - a.row), line 160
RECURSIVE SortByRowDesc(_)
SortByRowDesc(s) ==
  IF s = <<>> THEN <<>>
  ELSE InsertByRow(s[Len(s)], SortByRowDesc(SubSeq(s, 1, Len(s) - 1)))

\* the placement of a column starting one row too high
PlaceColumnHigh(colBlocks) ==
  [k \in 1..Len(colBlocks) |->
     [colBlocks[k] EXCEPT !.row = GRID_ROWS - 1 - k]]

\* colBlocks.forEach((b, idx) => newBlocks.push({...b, row: GRID_ROWS-1-idx}))
PlaceColumn(colBlocks) ==
  [k \in 1..Len(colBlocks) |->
     [colBlocks[k] EXCEPT !.row = GRID_ROWS - 1 - (k - 1)]]

\* the loop of lines 157-165 from column c on
RECURSIVE CompactFrom(_, _)
CompactFrom(remaining, c) ==
  IF c >= GRID_COLS THEN <<>>
  ELSE PlaceColumn(SortByRowDesc(SelectSeq(remaining, LAMBDA b : b.col = c)))
         \o CompactFrom(remaining, c + 1)

\* a removal that leaves the remaining tiles where they are
removeAndCompactNoFall(prev, removedIds) ==
  SelectSeq(prev, LAMBDA b : b.id \notin Range(removedIds))

\* the setBlocks updater of the match effect, lines 154-167
removeAndCompact(prev, removedIds) ==
  LET remaining == SelectSeq(prev, LAMBDA b : b.id \notin Range(removedIds))
  IN CompactFrom(remaining, 0)

\* a currentSum that counts the tile selected first only
currentSumOfFirst(bs, sel) ==
  SumValues(SelectSeq(bs, LAMBDA b : sel # <<>> /\ b.id = sel[1]))

\* currentSum, lines 89-91
currentSumOf(bs, sel) ==
  SumValues(SelectSeq(bs, LAMBDA b : b.id \in Range(sel)))

\* a toggle that never deselects
toggleIdsSticky(prev, id) ==
  IF id \in Range(prev) THEN prev ELSE Append(prev, id)

\* a toggle that puts a new id in front of the selection
toggleIdsFront(prev, id) ==
  IF id \in Range(prev) THEN SelectSeq(prev, LAMBDA i : i # id)
  ELSE <<id>> \o prev

\* prev.includes(id) ? prev.filter(i => i !== id) : [...prev, id], line 138
toggleIds(prev, id) ==
  IF id \in Range(prev) THEN SelectSeq(prev, LAMBDA i : i # id)
  ELSE Append(prev, id)

(* ------------------------ the component's state ------------------------- *)

\* the eight useState cells, lines 78-85
Cells ==
  [status |-> status, mode |-> mode, blocks |-> blocks,
   targetSum |-> targetSum, selectedIds |-> selectedIds, score |-> score,
   timeLeft |-> timeLeft, isPaused |-> isPaused]

\* the state an event works on: the cells and the model's bookkeeping
Current ==
  [cells |-> Cells, seed |-> seed, exiting |-> {}, matches |-> matches,
   timer |-> timer, log |-> <<>>]

\* One entry of log: op is the handler or effect that acted, before and after
\* are the cells it read and the cells with its updates applied, ids and flag
\* depend on op.
Entry(op, before, after, ids, flag) ==
  [op |-> op, before |-> before, after |-> after, ids |-> ids, flag |-> flag]

\* s after a step op that read the cells of s and led to the cells of r
Step(op, s, r, ids, flag) ==
  [r EXCEPT !.log = Append(s.log, Entry(op, s.cells, r.cells, ids, flag))]

\* ids a new tile must differ from
UsedIds(s) ==
  Ids(s.cells.blocks) \cup Range(s.cells.selectedIds) \cup s.exiting

\* the new row of lines 102-107
newRow(ids, sd) ==
  [c \in 1..GRID_COLS |->
     [id |-> ids[c], value |-> getRandomValue(sd, c - 1),
      row |-> GRID_ROWS - 1, col |-> c - 1]]

\* an addRow that signals the overflow but shifts and adds all the same
addRowUpdaterShifting(prev, ids, sd) ==
  LET isGameOver == \E i \in DOMAIN prev : prev[i].row = 0
      shifted == [i \in DOMAIN prev |-> [prev[i] EXCEPT !.row = prev[i].row - 1]]
  IN [blocks |-> shifted \o newRow(ids, sd), gameOver |-> isGameOver]

\* an addRow that looks for a tile above the grid instead of one in row 0
addRowUpdaterLate(prev, ids, sd) ==
  LET isGameOver == \E i \in DOMAIN prev : prev[i].row < 0
      shifted == [i \in DOMAIN prev |-> [prev[i] EXCEPT !.row = prev[i].row - 1]]
  IN IF isGameOver THEN [blocks |-> prev, gameOver |-> TRUE]
     ELSE [blocks |-> shifted \o newRow(ids, sd), gameOver |-> FALSE]

\* an addRow that moves the tiles up by two rows
addRowUpdaterDouble(prev, ids, sd) ==
  LET isGameOver == \E i \in DOMAIN prev : prev[i].row = 0
      shifted == [i \in DOMAIN prev |-> [prev[i] EXCEPT !.row = prev[i].row - 2]]
  IN IF isGameOver THEN [blocks |-> prev, gameOver |-> TRUE]
     ELSE [blocks |-> shifted \o newRow(ids, sd), gameOver |-> FALSE]

\* the setBlocks updater of addRow, lines 94-110: the new array, and whether
\* it called setStatus(GAMEOVER)
addRowUpdater(prev, ids, sd) ==
  LET isGameOver == \E i \in DOMAIN prev : prev[i].row = 0
      shifted == [i \in DOMAIN prev |-> [prev[i] EXCEPT !.row = prev[i].row - 1]]
  IN IF isGameOver THEN [blocks |-> prev, gameOver |-> TRUE]
     ELSE [blocks |-> shifted \o newRow(ids, sd), gameOver |-> FALSE]

\* addRow, lines 93-111; the flag of its entry is the overflow signal
addRow(s) ==
  LET u == addRowUpdater(s.cells.blocks, generateId(GRID_COLS, UsedIds(s)), s.seed)
      r == [s EXCEPT !.cells.blocks = u.blocks,
                     !.cells.status = IF u.gameOver THEN GAMEOVER ELSE @]
  IN Step("addRow", s, r, <<>>, u.gameOver)

\* a match branch that spawns a row in either mode
matchBranchAlwaysSpawn(s) ==
  LET c == s.cells
      removedIds == c.selectedIds
      newBlocks == removeAndCompact(c.blocks, removedIds)
      r == [s EXCEPT !.cells.score = @ + c.targetSum * Len(removedIds),
                     !.cells.blocks = newBlocks,
                     !.cells.selectedIds = <<>>,
                     !.exiting = @ \cup (Ids(c.blocks) \ Ids(newBlocks)),
                     !.matches = @ + 1]
  IN addRow(Step("match", s, r, removedIds, TRUE))

\* a match branch whose spawn looks for a tile in row 0 of the grid the
\* match started from
matchBranchCheckFirst(s) ==
  LET c == s.cells
      removedIds == c.selectedIds
      newBlocks == removeAndCompact(c.blocks, removedIds)
      r == [s EXCEPT !.cells.score = @ + c.targetSum * Len(removedIds),
                     !.cells.blocks = newBlocks,
                     !.cells.selectedIds = <<>>,
                     !.exiting = @ \cup (Ids(c.blocks) \ Ids(newBlocks)),
                     !.matches = @ + 1]
      m == Step("match", s, r, removedIds, TRUE)
  IN IF c.mode = CLASSIC
     THEN IF \E i \in DOMAIN c.blocks : c.blocks[i].row = 0
          THEN Step("addRow", m, [m EXCEPT !.cells.status = GAMEOVER],
                    <<>>, TRUE)
          ELSE addRow(m)
     ELSE Step("resetTimer", m, [m EXCEPT !.cells.timeLeft = TIME_LIMIT], <<>>, TRUE)

\* the match branch of the match effect, lines 144-175
matchBranch(s) ==
  LET c == s.cells
      removedIds == c.selectedIds
      newBlocks == removeAndCompact(c.blocks, removedIds)
      r == [s EXCEPT !.cells.score = @ + c.targetSum * Len(removedIds),
                     !.cells.blocks = newBlocks,
                     !.cells.selectedIds = <<>>,
                     !.exiting = @ \cup (Ids(c.blocks) \ Ids(newBlocks)),
                     !.matches = @ + 1]
      m == Step("match", s, r, removedIds, TRUE)
  IN IF c.mode = CLASSIC THEN addRow(m)
     ELSE Step("resetTimer", m, [m EXCEPT !.cells.timeLeft = TIME_LIMIT], <<>>, TRUE)

\* a match effect whose overshoot branch also resets the countdown
matchEffectResetting(s) ==
  LET c == s.cells
      currentSum == currentSumOf(c.blocks, c.selectedIds)
  IN IF currentSum = c.targetSum /\ c.targetSum > 0 THEN matchBranch(s)
     ELSE IF currentSum > c.targetSum
     THEN Step("overshoot", s,
               [s EXCEPT !.cells.selectedIds = <<>>,
                         !.cells.timeLeft = TIME_LIMIT],
               c.selectedIds, TRUE)
     ELSE s

\* the match effect, lines 142-179, run on the render s
matchEffect(s) ==
  LET c == s.cells
      currentSum == currentSumOf(c.blocks, c.selectedIds)
  IN IF currentSum = c.targetSum /\ c.targetSum > 0 THEN matchBranch(s)
     ELSE IF currentSum > c.targetSum
     THEN Step("overshoot", s, [s EXCEPT !.cells.selectedIds = <<>>],
               c.selectedIds, TRUE)
     ELSE s

\* whether the match effect, run on s, calls setSelectedIds (with a new
\* array: the next render sees selectedIds changed)
matchSetsSelection(s) ==
  LET c == s.cells
      currentSum == currentSumOf(c.blocks, c.selectedIds)
  IN (currentSum = c.targetSum /\ c.targetSum > 0) \/ currentSum > c.targetSum

\* the target effect, lines 181-185, run on the render s with the updates
\* queued so far in q: the states it can lead to, one for each value
\* generateTarget may return
targetEffect(s, q) ==
  IF s.cells.status = PLAYING /\ Len(s.cells.blocks) > 0
  THEN {[q EXCEPT !.cells.targetSum = t,
                  !.log = Append(@, Entry("target", s.cells,
                                          [q.cells EXCEPT !.targetSum = t],
                                          <<>>, TRUE))] :
          t \in TargetChoices(s.cells.blocks)}
  ELSE {q}

\* an overflow effect that already ends the game for a tile in row 0
overflowEffectEager(s, q) ==
  IF s.cells.status = PLAYING
     /\ \E i \in DOMAIN s.cells.blocks : s.cells.blocks[i].row < 1
  THEN [q EXCEPT !.cells.status = GAMEOVER,
                 !.log = Append(@, Entry("overflow", s.cells,
                                         [q.cells EXCEPT !.status = GAMEOVER],
                                         <<>>, TRUE))]
  ELSE q

\* the overflow effect, lines 204-208, run on the render s
overflowEffect(s, q) ==
  IF s.cells.status = PLAYING
     /\ \E i \in DOMAIN s.cells.blocks : s.cells.blocks[i].row < 0
  THEN [q EXCEPT !.cells.status = GAMEOVER,
                 !.log = Append(@, Entry("overflow", s.cells,
                                         [q.cells EXCEPT !.status = GAMEOVER],
                                         <<>>, TRUE))]
  ELSE q

\* a timer effect that keeps its interval running through a pause
timerEffectNoPause(s, q) ==
  [q EXCEPT !.timer = s.cells.status = PLAYING /\ s.cells.mode = TIME]

\* the timer effect, lines 187-202, run on the render s: its cleanup clears
\* the interval of the last run, then the interval is set if the session is
\* a running TIME session
timerEffect(s, q) ==
  [q EXCEPT !.timer = /\ s.cells.status = PLAYING
                      /\ s.cells.mode = TIME
                      /\ ~s.cells.isPaused]

\* The renders and effect passes after an update.  old is the last render
\* that was committed, cur the render being committed, selSet whether
\* setSelectedIds was called since old.  An effect runs when one of its
\* dependencies differs between old and cur; the effects of one commit all
\* read cur and their updates are applied together.  The result is the set
\* of states in which no effect has anything left to do.
RECURSIVE Settle(_, _, _)
Settle(old, cur, selSet) ==
  LET o == old.cells
      c == cur.cells
      runMatch ==
        \/ currentSumOf(c.blocks, c.selectedIds)
             # currentSumOf(o.blocks, o.selectedIds)
        \/ c.targetSum # o.targetSum
        \/ selSet
        \/ c.mode # o.mode
      runTarget == Len(c.blocks) # Len(o.blocks) \/ c.status # o.status
      runTimer ==
        c.status # o.status \/ c.mode # o.mode \/ c.isPaused # o.isPaused
      runOverflow == c.blocks # o.blocks \/ c.status # o.status
      afterMatch == IF runMatch THEN matchEffect(cur) ELSE cur
      nextSel == runMatch /\ matchSetsSelection(cur)
      afterTarget == IF runTarget THEN targetEffect(cur, afterMatch)
                     ELSE {afterMatch}
      afterTimer == {IF runTimer THEN timerEffect(cur, q) ELSE q :
                       q \in afterTarget}
      queued == {IF runOverflow THEN overflowEffect(cur, q) ELSE q :
                   q \in afterTimer}
  IN UNION {IF q.cells = c /\ ~nextSel THEN {q} ELSE Settle(cur, q, nextSel) :
              q \in queued}

(* ------------------------------- inputs -------------------------------- *)

Seeds == 1..NumSeeds

SetMin(S) == CHOOSE x \in S : \A y \in S : x <= y

\* The player scans the bottom row from the left: the tile a click selects
\* is the left-most tile of the bottom row that is not selected yet.
NextTileIds ==
  LET cand == {i \in DOMAIN blocks :
                 blocks[i].row = GRID_ROWS - 1
                 /\ blocks[i].id \notin Range(selectedIds)}
      first == {i \in cand : \A j \in cand : blocks[i].col <= blocks[j].col}
  IN {blocks[i].id : i \in first}

\* the tile selected last may be clicked again
LastSelectedIds ==
  IF selectedIds = <<>> THEN {} ELSE {selectedIds[Len(selectedIds)]}

\* The button of a tile the last event removed is still mounted (and still
\* calls toggleBlock with its id) while its exit animation plays.
StaleIds == IF exiting = {} THEN {} ELSE {SetMin(exiting)}

ClickIds == NextTileIds \cup LastSelectedIds \cup StaleIds

(* ------------------------------- actions ------------------------------- *)

Commit(f) ==
  /\ status' = f.cells.status
  /\ mode' = f.cells.mode
  /\ blocks' = f.cells.blocks
  /\ targetSum' = f.cells.targetSum
  /\ selectedIds' = f.cells.selectedIds
  /\ score' = f.cells.score
  /\ timeLeft' = f.cells.timeLeft
  /\ isPaused' = f.cells.isPaused
  /\ seed' = f.seed
  /\ exiting' = f.exiting
  /\ matches' = f.matches
  /\ timer' = f.timer
  /\ log' = f.log

\* the event led from the committed render Current to s (computed once, as
\* v): run the effects
Finish(s) == \E v \in {s} : \E f \in Settle(Current, v, FALSE) : Commit(f)

\* the loops of lines 114-124
initialBlocks(sd, ids) ==
  [k \in 1..(INITIAL_ROWS * GRID_COLS) |->
     LET r == (k - 1) \div GRID_COLS
         c == (k - 1) % GRID_COLS
     IN [id |-> ids[k], value |-> getRandomValue(sd, c),
         row |-> GRID_ROWS - INITIAL_ROWS + r, col |-> c]]

\* what the entry of initGame keeps of the cells it replaced
Leftover(c) ==
  [status |-> c.status, mode |-> c.mode, grid |-> c.blocks # <<>>,
   selection |-> c.selectedIds # <<>>, score |-> c.score > 0,
   isPaused |-> c.isPaused, elapsed |-> c.timeLeft < TIME_LIMIT]

\* an initGame that keeps the score
initGameKeepingScore(selectedMode, sd) ==
  LET init == initialBlocks(sd, generateId(INITIAL_ROWS * GRID_COLS, {}))
  IN \E t \in TargetChoices(init) :
       LET kept == [status |-> PLAYING, mode |-> selectedMode,
                    blocks |-> init, targetSum |-> t,
                    selectedIds |-> <<>>, score |-> score,
                    timeLeft |-> TIME_LIMIT, isPaused |-> FALSE]
           r == [Current EXCEPT
                   !.cells = kept,
                   !.seed = sd,
                   !.matches = 0,
                   !.log = <<Entry("initGame", Leftover(Cells), kept,
                                   <<>>, TRUE)>>]
       IN \E f \in Settle(Current, r, TRUE) : Commit(f)

\* initGame, lines 113-133; sd is the random source of the new session and
\* t the value generateTarget returns at line 126
initGame(selectedMode, sd) ==
  LET init == initialBlocks(sd, generateId(INITIAL_ROWS * GRID_COLS, {}))
      fresh(t) == [status |-> PLAYING, mode |-> selectedMode,
                   blocks |-> init, targetSum |-> t,
                   selectedIds |-> <<>>, score |-> 0,
                   timeLeft |-> TIME_LIMIT, isPaused |-> FALSE]
  IN \E t \in TargetChoices(init) :
       LET r == [Current EXCEPT
                   !.cells = fresh(t),
                   !.seed = sd,
                   !.matches = 0,
                   !.log = <<Entry("initGame", Leftover(Cells), fresh(t),
                                   <<>>, TRUE)>>]
       IN \E f \in Settle(Current, r, TRUE) : Commit(f)

\* the two buttons of the menu screen, lines 239 and 250
SelectMode ==
  /\ status = MENU
  /\ \E m \in {CLASSIC, TIME}, sd \in Seeds : initGame(m, sd)

\* the restart button of the game-over overlay, line 448
Restart ==
  /\ status = GAMEOVER
  /\ \E sd \in Seeds : initGame(mode, sd)

\* toggleBlock, lines 135-140; the flag of its entry tells whether the
\* click got past the guard of line 136
toggleBlock(id) ==
  IF status # PLAYING \/ isPaused
  THEN Commit(Step("toggle", Current, Current, <<id>>, FALSE))
  ELSE LET r == [Current EXCEPT
                   !.cells.selectedIds = toggleIds(selectedIds, id)]
       IN \E f \in Settle(Current, Step("toggle", Current, r, <<id>>, TRUE), TRUE) :
            Commit(f)

\* a call of toggleBlock: a click on a tile button, line 358
Toggle ==
  /\ matches < MaxMatches
  /\ \A i \in DOMAIN blocks : blocks[i].row >= GRID_ROWS - MaxClickRows
  /\ \E id \in ClickIds : toggleBlock(id)

\* an interval callback that restarts the countdown without calling addRow
TickNoSpawn ==
  /\ timer
  /\ IF timeLeft <= 1
     THEN Finish(Step("tick", Current,
                      [Current EXCEPT !.cells.timeLeft = TIME_LIMIT],
                      <<>>, TRUE))
     ELSE Finish(Step("tick", Current,
                      [Current EXCEPT !.cells.timeLeft = timeLeft - 1],
                      <<>>, FALSE))

\* an interval callback that spawns one tick early
TickEarly ==
  /\ timer
  /\ IF timeLeft <= 2
     THEN Finish(addRow(Step("tick", Current,
                             [Current EXCEPT !.cells.timeLeft = TIME_LIMIT],
                             <<>>, TRUE)))
     ELSE Finish(Step("tick", Current,
                      [Current EXCEPT !.cells.timeLeft = timeLeft - 1],
                      <<>>, FALSE))

\* the interval callback, lines 189-198: it fires while the interval is set
Tick ==
  /\ timer
  /\ IF timeLeft <= 1
     THEN Finish(addRow(Step("tick", Current,
                             [Current EXCEPT !.cells.timeLeft = TIME_LIMIT],
                             <<>>, TRUE)))
     ELSE Finish(Step("tick", Current,
                      [Current EXCEPT !.cells.timeLeft = timeLeft - 1],
                      <<>>, FALSE))

setIsPaused(v) ==
  Finish(Step("pause", Current, [Current EXCEPT !.cells.isPaused = v], <<>>, v))

\* the pause button of the header, line 327, pressed to pause
PauseButton ==
  /\ status = PLAYING
  /\ ~isPaused
  /\ Len(selectedIds) <= MaxHeld
  /\ setIsPaused(~isPaused)

\* the resume button of the pause overlay, line 406
ResumeButton ==
  /\ status # MENU
  /\ isPaused
  /\ setIsPaused(FALSE)

\* the back button of the header, line 289 (also while paused), and the
\* menu button of the game-over overlay, line 455
MainMenu ==
  /\ \/ /\ status = PLAYING
        /\ Len(selectedIds) <= MaxHeld
        /\ TIME_LIMIT - timeLeft <= MaxElapsed
     \/ status = GAMEOVER
  /\ Finish(Step("menu", Current, [Current EXCEPT !.cells.status = MENU],
                 <<>>, TRUE))

Init ==
  /\ status = MENU
  /\ mode = CLASSIC
  /\ blocks = <<>>
  /\ targetSum = 0
  /\ selectedIds = <<>>
  /\ score = 0
  /\ timeLeft = TIME_LIMIT
  /\ isPaused = FALSE
  /\ seed = 1
  /\ exiting = {}
  /\ matches = 0
  /\ timer = FALSE
  /\ log = <<>>

Next ==
  \/ SelectMode
  \/ Restart
  \/ Toggle
  \/ Tick
  \/ PauseButton
  \/ ResumeButton
  \/ MainMenu

Spec == Init /\ [][Next]_vars

(* --------------- the compaction on its own: SpecCompact ---------------- *)

\* at most MaxRemoved ids are removed at once
MaxRemoved == 2

\* the cells a grid of SpecCompact may occupy
CompactRows == {GRID_ROWS - 4, GRID_ROWS - 2, GRID_ROWS - 1}

CompactCols == {0, GRID_COLS - 1}

\* the tile of cell (r, c)
TileAt(r, c) ==
  [id |-> r * GRID_COLS + c + 1, value |-> ((r + c) % 9) + 1, row |-> r, col |-> c]

\* the tiles of S as an array, in increasing (up) or decreasing order of id
RECURSIVE ArrayOf(_, _)
ArrayOf(S, up) ==
  IF S = {} THEN <<>>
  ELSE LET b == CHOOSE x \in S : \A y \in S : IF up THEN x.id <= y.id
                                                ELSE x.id >= y.id
       IN <<b>> \o ArrayOf(S \ {b}, up)

CompactGrids ==
  {ArrayOf(S, up) :
     S \in SUBSET {TileAt(r, c) : r \in CompactRows, c \in CompactCols},
     up \in BOOLEAN}

\* the ids to remove: up to MaxRemoved ids of the grid, in increasing order
RECURSIVE IdArray(_)
IdArray(S) ==
  IF S = {} THEN <<>> ELSE <<SetMin(S)>> \o IdArray(S \ {SetMin(S)})

Removals(bs) ==
  {IdArray(R) : R \in {Q \in SUBSET Ids(bs) : Cardinality(Q) <= MaxRemoved}}

InitCompact ==
  /\ status = PLAYING
  /\ mode = TIME
  /\ blocks \in CompactGrids
  /\ targetSum = 10
  /\ selectedIds \in Removals(blocks)
  /\ score = 0
  /\ timeLeft = TIME_LIMIT
  /\ isPaused = FALSE
  /\ seed = 1
  /\ exiting = {}
  /\ matches = 0
  /\ timer = FALSE
  /\ log = <<>>

\* one application of the updater of lines 154-167
Compact ==
  /\ log = <<>>
  /\ blocks' = removeAndCompact(blocks, selectedIds)
  /\ log' = <<Entry("compact", Cells, [Cells EXCEPT !.blocks = blocks'],
                    selectedIds, TRUE)>>
  /\ UNCHANGED <<status, mode, targetSum, selectedIds, score, timeLeft,
                 isPaused, seed, exiting, matches, timer>>

NextCompact == Compact

SpecCompact == InitCompact /\ [][NextCompact]_vars

(* ------------- sessions played to the end: SpecDeep -------------------- *)

\* A CLASSIC grid fills up after seven matches.  In SpecDeep the player of a
\* CLASSIC session clicks through the bottom row from the left and, once the
\* grid reaches the top, through the top row, for up to MaxDeepMatches
\* matches, and a TIME session is left to its timer.
MaxDeepMatches == 7

\* Once a column reaches the top the player may also click on its top tile:
\* the left-most tile of row 0 that is not selected yet.
TopTileIds ==
  LET cand == {i \in DOMAIN blocks :
                 blocks[i].row = 0 /\ blocks[i].id \notin Range(selectedIds)}
      first == {i \in cand : \A j \in cand : blocks[i].col <= blocks[j].col}
  IN {blocks[i].id : i \in first}

\* a click on a tile button, line 358
DeepToggle ==
  /\ status = PLAYING
  /\ mode = CLASSIC
  /\ matches < MaxDeepMatches
  /\ \E id \in NextTileIds \cup TopTileIds : toggleBlock(id)

NextDeep ==
  \/ SelectMode
  \/ Restart
  \/ DeepToggle
  \/ Tick

SpecDeep == Init /\ [][NextDeep]_vars

(* ------------------- a tile clicked twice: SpecPair --------------------- *)

\* In SpecPair the player clicks any tile of the grid while nothing is
\* selected and then clicks the same tile again; the timer of a TIME session
\* runs between two such pairs.

\* the first click of a pair, line 358
PairFirst ==
  /\ status = PLAYING
  /\ ~isPaused
  /\ selectedIds = <<>>
  /\ \E id \in Ids(blocks) : toggleBlock(id)

\* the second click, on the same button
PairSecond ==
  /\ status = PLAYING
  /\ ~isPaused
  /\ Len(selectedIds) = 1
  /\ toggleBlock(selectedIds[1])

\* the interval callback between two pairs
PairTick ==
  /\ selectedIds = <<>>
  /\ Tick

NextPair ==
  \/ SelectMode
  \/ PairFirst
  \/ PairSecond
  \/ PairTick

SpecPair == Init /\ [][NextPair]_vars

(* ------------- a session left to its timer: SpecTimed ------------------ *)

\* In SpecTimed the player starts sessions and never clicks a tile or the
\* pause button.  While the interval of the timer effect is set the browser
\* keeps calling its callback (setInterval, line 188): Tick is weakly fair.
NextTimed ==
  \/ SelectMode
  \/ Restart
  \/ Tick

SpecTimed == Init /\ [][NextTimed]_vars /\ WF_vars(Tick)

(* ------------------------------ properties ----------------------------- *)

HasRowZero(bs) == \E i \in DOMAIN bs : bs[i].row = 0

\* the live tiles of bs whose id is in ids
LiveIn(bs, ids) == {i \in DOMAIN bs : bs[i].id \in Range(ids)}

RECURSIVE SetSum(_, _)
\* the sum of the values of the tiles of bs at the indices of S
SetSum(bs, S) ==
  IF S = {} THEN 0
  ELSE LET i == CHOOSE x \in S : TRUE IN bs[i].value + SetSum(bs, S \ {i})

\* the sum of the selected live tiles
SelectedSum(c) == SetSum(c.blocks, LiveIn(c.blocks, c.selectedIds))

\* C1: whenever addRow is called on a grid with a tile in row 0, by the timer
\* or by a match, it leaves the grid as it is and signals the overflow, and
\* the status goes from PLAYING to GAMEOVER.
C1_AddRowOverflow ==
  \A i \in DOMAIN log :
    (log[i].op = "addRow" /\ HasRowZero(log[i].before.blocks)) =>
      /\ log[i].after.blocks = log[i].before.blocks
      /\ log[i].flag
      /\ log[i].before.status = PLAYING
      /\ log[i].after.status = GAMEOVER
      /\ status = GAMEOVER
      /\ blocks = log[i].before.blocks

\* a CLASSIC match called addRow on a grid that was still full after the
\* compaction
C1_Witness ==
  \E i \in DOMAIN log :
    /\ log[i].op = "addRow"
    /\ HasRowZero(log[i].before.blocks)
    /\ i > 1 /\ log[i - 1].op = "match"
    /\ mode = CLASSIC
    /\ status = GAMEOVER

\* C2: the remove-and-compact step yields exactly the tiles whose id is not
\* removed, each with its id, value and column; in every column the survivors
\* occupy the rows 9, 8, ... without a gap and in their former vertical order.
C2_RemoveAndCompact ==
  \A i \in DOMAIN log :
    log[i].op = "compact" =>
      LET old == log[i].before.blocks
          new == log[i].after.blocks
          survivors == {k \in DOMAIN old : old[k].id \notin Range(log[i].ids)}
          inCol(c) == {k \in DOMAIN new : new[k].col = c}
      IN /\ Len(new) = Cardinality(survivors)
         /\ \A k \in survivors :
              \E j \in DOMAIN new :
                /\ new[j].id = old[k].id
                /\ new[j].value = old[k].value
                /\ new[j].col = old[k].col
         /\ \A c \in 0..(GRID_COLS - 1) :
              {new[j].row : j \in inCol(c)}
                = (GRID_ROWS - Cardinality(inCol(c)))..(GRID_ROWS - 1)
         /\ \A k, l \in survivors :
              (old[k].col = old[l].col /\ old[k].row > old[l].row) =>
                \A j, m \in DOMAIN new :
                  (new[j].id = old[k].id /\ new[m].id = old[l].id) =>
                    new[j].row > new[m].row

\* a column with a gap lost a tile and its two survivors fell
C2_Witness ==
  \E i \in DOMAIN log :
    /\ log[i].op = "compact"
    /\ Len(log[i].ids) = 1
    /\ \E c \in CompactCols :
         /\ Cardinality({k \in DOMAIN log[i].before.blocks :
                           log[i].before.blocks[k].col = c}) = 3
         /\ Cardinality({k \in DOMAIN log[i].after.blocks :
                           log[i].after.blocks[k].col = c}) = 2
         /\ \E k \in DOMAIN log[i].before.blocks :
              /\ log[i].before.blocks[k].col = c
              /\ log[i].before.blocks[k].row = GRID_ROWS - 1
              /\ log[i].before.blocks[k].id \in Range(log[i].ids)

\* C3 (as the specification states it): whenever the selected live tiles sum
\* to a positive target a match fires, once; the score grows by the target
\* times the number of selected tiles, the selected tiles leave the grid and
\* the selection becomes empty.
C3_MatchScore ==
  /\ Cardinality({i \in DOMAIN log : log[i].op = "match"}) <= 1
  /\ \A i \in DOMAIN log :
       /\ (/\ log[i].op \in {"toggle", "target"}
           /\ log[i].after.targetSum > 0
           /\ SelectedSum(log[i].after) = log[i].after.targetSum)
            => (i < Len(log) /\ log[i + 1].op = "match")
       /\ log[i].op = "match" =>
            LET b == log[i].before
                a == log[i].after
                n == Cardinality(LiveIn(b.blocks, b.selectedIds))
            IN /\ a.score = b.score + b.targetSum * n
               /\ Ids(a.blocks) = Ids(b.blocks) \ Range(b.selectedIds)
               /\ a.selectedIds = <<>>

\* C4: when the selected live tiles sum to more than the target the selection
\* is cleared and nothing else changes: score, grid, target, countdown and
\* status stay and no row is spawned.
C4_Overshoot ==
  \A i \in DOMAIN log :
    /\ (/\ log[i].op \in {"toggle", "target"}
        /\ SelectedSum(log[i].after) > log[i].after.targetSum)
         => (i < Len(log) /\ log[i + 1].op = "overshoot")
    /\ log[i].op = "overshoot" =>
         /\ SelectedSum(log[i].before) > log[i].before.targetSum
         /\ log[i].after = [log[i].before EXCEPT !.selectedIds = <<>>]
         /\ i = Len(log)
         /\ Cells = log[i].after

\* an overshoot happened while the countdown was running
C4_Witness ==
  \E i \in DOMAIN log :
    /\ log[i].op = "overshoot"
    /\ log[i].before.mode = TIME
    /\ log[i].before.timeLeft < TIME_LIMIT
    /\ log[i].before.selectedIds # <<>>

\* C5 (as the specification states it): every selected id is the id of a
\* live tile, and a toggle with the id of a tile that is not live leaves the
\* selection as it is.
C5_SelectionLive ==
  /\ Range(selectedIds) \subseteq Ids(blocks)
  /\ \A i \in DOMAIN log :
       (log[i].op = "toggle" /\ log[i].ids[1] \notin Ids(log[i].before.blocks))
         => log[i].after.selectedIds = log[i].before.selectedIds

\* C6: at rest no two tiles share a cell, every row is in 0..9 and every
\* column in 0..5; no step of an event produces a tile with a negative row.
C6_GridWellFormed ==
  /\ \A i, j \in DOMAIN blocks :
       (blocks[i].row = blocks[j].row /\ blocks[i].col = blocks[j].col) => i = j
  /\ \A i \in DOMAIN blocks :
       /\ blocks[i].row \in 0..(GRID_ROWS - 1)
       /\ blocks[i].col \in 0..(GRID_COLS - 1)
  /\ \A k \in DOMAIN log :
       \A i \in DOMAIN log[k].after.blocks : log[k].after.blocks[i].row >= 0

\* the grid is full, addRow was refused, and a match had compacted it before
C6_Witness ==
  /\ HasRowZero(blocks)
  /\ status = GAMEOVER
  /\ matches > 0
  /\ \E i \in DOMAIN log : log[i].op = "addRow" /\ log[i].flag

\* C7 (as the specification states it): after every successful addRow, by
\* the timer or by a match that removed any number of tiles, the target is
\* regenerated from the grid with the new row before the next event.
C7_TargetAfterAddRow ==
  \A i \in DOMAIN log :
    (log[i].op = "addRow" /\ ~log[i].flag) =>
      \E j \in DOMAIN log :
        /\ j > i
        /\ log[j].op = "target"
        /\ log[j].before.blocks = log[i].after.blocks

\* C8 (as the specification states it): when the compaction of a match
\* changes the number of tiles, the target is regenerated from the grid that
\* results, and it is 10 when that grid is empty.
C8_TargetAfterCompaction ==
  \A i \in DOMAIN log :
    (log[i].op = "match"
     /\ Len(log[i].after.blocks) # Len(log[i].before.blocks)) =>
      /\ \E j \in DOMAIN log :
           /\ j > i
           /\ log[j].op = "target"
           /\ log[j].before.blocks = blocks
      /\ blocks = <<>> => targetSum = 10

\* the tile sets the range of generateTarget is computed over: up to four
\* tiles with values from 1, 5 and 9
SmallTileSets ==
  UNION {[1..n -> {[id |-> 0, value |-> v, row |-> 0, col |-> 0] : v \in {1, 5, 9}}] :
           n \in 1..4}

GenerateTargetInRange ==
  \A bs \in SmallTileSets :
    \A count \in Counts, off \in 0..(Len(bs) - 1) :
      generateTarget(bs, count, off) \in 10..45

\* C9: generateTarget returns a value in 10..45 for every non-empty tile set,
\* sample size and sample, also when the set is smaller than the sample; in
\* every state with status PLAYING or GAMEOVER the target is in 10..45.
C9_TargetRange ==
  /\ GenerateTargetInRange
  /\ blocks # <<>> => TargetChoices(blocks) \subseteq 10..45
  /\ status \in {PLAYING, GAMEOVER} => targetSum \in 10..45

\* the target is at its floor though the sampled tiles sum to less
C9_Witness ==
  /\ status = PLAYING
  /\ targetSum = 10
  /\ \A count \in Counts : SumValues(shuffledSlice(blocks, count, 0)) < 10
  /\ \E i \in DOMAIN log : log[i].op = "target"

C11_TenTicks ==
  /\ timeLeft \in 1..TIME_LIMIT
  /\ \A i \in DOMAIN log :
       log[i].op = "tick" =>
         LET spawns == {j \in DOMAIN log : log[j].op = "addRow"}
         IN /\ log[i].before.timeLeft \in 1..TIME_LIMIT
            /\ IF log[i].before.timeLeft = 1
               THEN /\ Cardinality(spawns) = 1
                    /\ log[i].after.timeLeft = TIME_LIMIT
                    /\ timeLeft = TIME_LIMIT
               ELSE /\ spawns = {}
                    /\ log[i].after.timeLeft = log[i].before.timeLeft - 1
                    /\ timeLeft = log[i].before.timeLeft - 1

\* the tenth tick of a session without a match spawned the fifth row
C11_Witness ==
  /\ mode = TIME
  /\ matches = 0
  /\ Len(blocks) = (INITIAL_ROWS + 1) * GRID_COLS
  /\ timeLeft = TIME_LIMIT
  /\ \E i \in DOMAIN log : log[i].op = "tick" /\ log[i].before.timeLeft = 1
  /\ \E i \in DOMAIN log : log[i].op = "addRow" /\ ~log[i].flag

\* C12: the interval is set exactly while the status is PLAYING, the mode
\* TIME and the session not paused; every tick finds such a state, so no
\* tick lowers the countdown or spawns a row while paused, outside PLAYING
\* or in a CLASSIC session.
C12_TimerSuspended ==
  /\ timer <=> (status = PLAYING /\ mode = TIME /\ ~isPaused)
  /\ \A i \in DOMAIN log :
       log[i].op = "tick" =>
         /\ log[i].before.status = PLAYING
         /\ log[i].before.mode = TIME
         /\ ~log[i].before.isPaused
         /\ i = 1
  /\ \A i \in DOMAIN log :
       (log[i].op = "addRow" /\ log[i].before.mode = TIME) =>
         (i = 2 /\ log[1].op = "tick")

\* a TIME session is paused in the middle of its countdown and no interval
\* is set
C12_Witness ==
  /\ status = PLAYING
  /\ mode = TIME
  /\ isPaused
  /\ timeLeft < TIME_LIMIT
  /\ ~timer
  /\ \E i \in DOMAIN log : log[i].op = "pause"

\* C13: a match in a CLASSIC session requests exactly one row spawn and
\* leaves the countdown as it is; a match in a TIME session sets the
\* countdown to 10 and spawns no row, so the grid has the tiles of before
\* less the removed ones.
C13_ModeBranch ==
  \A i \in DOMAIN log :
    log[i].op = "match" =>
      /\ i < Len(log)
      /\ IF log[i].before.mode = CLASSIC
         THEN /\ log[i + 1].op = "addRow"
              /\ Cardinality({j \in DOMAIN log : log[j].op = "addRow"}) = 1
              /\ \A j \in DOMAIN log : log[j].op # "resetTimer"
              /\ log[i].after.timeLeft = log[i].before.timeLeft
              /\ timeLeft = log[i].before.timeLeft
         ELSE /\ log[i + 1].op = "resetTimer"
              /\ log[i + 1].after.timeLeft = TIME_LIMIT
              /\ timeLeft = TIME_LIMIT
              /\ \A j \in DOMAIN log : j > i => log[j].op # "addRow"
              /\ Len(blocks) = Len(log[i].before.blocks)
                   - Cardinality(LiveIn(log[i].before.blocks,
                                        log[i].before.selectedIds))

\* a match in a TIME session whose countdown had run down in part
C13_Witness ==
  \E i \in DOMAIN log :
    /\ log[i].op = "match"
    /\ log[i].before.mode = TIME
    /\ log[i].before.timeLeft < TIME_LIMIT
    /\ timeLeft = TIME_LIMIT
    /\ Len(blocks) < Len(log[i].before.blocks)

\* C14: every step from MENU or GAMEOVER to PLAYING, whatever the state it
\* starts from, ends in a fresh session: 24 tiles, one in every cell of rows
\* 6 to 9, with values in 1..9, a target generated from that grid, score 0,
\* no selection, countdown 10 and not paused; a restart keeps the mode.
C14_FreshSession ==
  [][(status \in {MENU, GAMEOVER} /\ status' = PLAYING) =>
       /\ Len(blocks') = INITIAL_ROWS * GRID_COLS
       /\ \A r \in (GRID_ROWS - INITIAL_ROWS)..(GRID_ROWS - 1) :
            \A c \in 0..(GRID_COLS - 1) :
              Cardinality({i \in DOMAIN blocks' :
                             blocks'[i].row = r /\ blocks'[i].col = c}) = 1
       /\ \A i \in DOMAIN blocks' : blocks'[i].value \in 1..9
       /\ Cardinality({blocks'[i].id : i \in DOMAIN blocks'}) = Len(blocks')
       /\ \E count \in Counts, off \in 0..(Len(blocks') - 1) :
            LET sum == SetSum(blocks', {((k - 1 + off) % Len(blocks')) + 1 :
                                          k \in 1..count})
            IN targetSum' = IF sum < 10 THEN 10 ELSE IF sum > 45 THEN 45 ELSE sum
       /\ score' = 0
       /\ selectedIds' = <<>>
       /\ timeLeft' = TIME_LIMIT
       /\ isPaused' = FALSE
       /\ status = GAMEOVER => mode' = mode]_vars

\* a session was started from the menu over a paused session with tiles, a
\* score and a countdown that had run down in part
C14_Witness ==
  /\ status = PLAYING
  /\ score = 0
  /\ ~isPaused
  /\ timeLeft = TIME_LIMIT
  /\ log # <<>>
  /\ log[1].op = "initGame"
  /\ log[1].before.status = MENU
  /\ log[1].before.grid
  /\ log[1].before.score
  /\ log[1].before.isPaused
  /\ log[1].before.elapsed

\* the entries of the last event that took the status from PLAYING to
\* GAMEOVER
EndingEntries ==
  {i \in DOMAIN log : /\ log[i].op # "initGame"
                      /\ log[i].before.status = PLAYING
                      /\ log[i].after.status = GAMEOVER}

\* C15: the status goes from PLAYING to GAMEOVER only in an addRow that
\* reports overflow (it found a tile in row 0) or in the overflow check when
\* it finds a tile with a negative row; a toggle, a match, a countdown
\* reset, an overshoot, a pause, a tick or a successful spawn never does it;
\* and in every state with status GAMEOVER the grid has a tile in row 0 or
\* above the top.
C15_GameOverCauses ==
  /\ \A i \in EndingEntries :
        \/ /\ log[i].op = "addRow"
           /\ log[i].flag
           /\ HasRowZero(log[i].before.blocks)
           /\ log[i].after.blocks = log[i].before.blocks
        \/ /\ log[i].op = "overflow"
           /\ \E k \in DOMAIN log[i].before.blocks :
                 log[i].before.blocks[k].row < 0
  /\ \A i \in DOMAIN log :
        (log[i].op = "addRow" /\ ~log[i].flag) => i \notin EndingEntries
  /\ (status = GAMEOVER /\ log # <<>> /\ log[1].before.status = PLAYING)
        => EndingEntries # {}
  /\ status = GAMEOVER => \E k \in DOMAIN blocks : blocks[k].row <= 0

\* a session has just ended: the tick that found the countdown at its end
\* called addRow on a grid that reached row 0
C15_Witness ==
  /\ status = GAMEOVER
  /\ Len(log) >= 2
  /\ log[1].op = "tick"
  /\ log[1].before.status = PLAYING
  /\ log[2].op = "addRow"
  /\ log[2].flag
  /\ HasRowZero(blocks)

\* C16: in a running session with nothing selected, a click on a live tile
\* A selects it and triggers neither a match nor an overshoot (the click is
\* the only step of the event and only the selection changes); a second
\* click on A right after it deselects A: the selection is empty again and
\* the grid, the score and the target are as before the first click.
C16_DoubleToggle ==
  (log # <<>> /\ log[1].op = "toggle" /\ log[1].flag)
    => LET b == log[1].before
           A == log[1].ids[1]
       IN /\ (b.selectedIds = <<>> /\ A \in Ids(b.blocks))
               => /\ Len(log) = 1
                  /\ Cells = [b EXCEPT !.selectedIds = <<A>>]
                  /\ currentSumOf(blocks, selectedIds) < targetSum
          /\ (b.selectedIds = <<A>> /\ A \in Ids(b.blocks))
               => /\ Len(log) = 1
                  /\ Cells = [b EXCEPT !.selectedIds = <<>>]

\* the second click of a pair on a tile above the bottom row has happened
C16_Witness ==
  /\ status = PLAYING
  /\ log # <<>>
  /\ log[1].op = "toggle"
  /\ log[1].flag
  /\ log[1].before.selectedIds = log[1].ids
  /\ selectedIds = <<>>
  /\ \E i \in DOMAIN blocks :
        /\ blocks[i].id = log[1].ids[1]
        /\ blocks[i].row < GRID_ROWS - 1
        /\ blocks[i].value = 4

\* C17: in a CLASSIC session the spawn that follows a match looks for a tile
\* in row 0 of the grid as the match left it (matched tiles removed, columns
\* compacted), not of the grid the match started from.  If no column reaches
\* row 0 any more the spawn succeeds: every remaining tile moves up and six
\* tiles are added.  If a column still reaches row 0 the game ends with the
\* matched tiles removed, the score awarded and no row added.
C17_SpawnAfterCompaction ==
  \A i \in DOMAIN log :
    (log[i].op = "match" /\ log[i].before.mode = CLASSIC)
      => LET b == log[i].before
             a == log[i].after
             full == HasRowZero(a.blocks)
         IN /\ Ids(a.blocks) = Ids(b.blocks) \ Range(log[i].ids)
            /\ a.score = b.score + b.targetSum * Len(log[i].ids)
            /\ i + 1 \in DOMAIN log
            /\ log[i + 1].op = "addRow"
            /\ log[i + 1].before.blocks = a.blocks
            /\ log[i + 1].flag = full
            /\ full => /\ log[i + 1].after.status = GAMEOVER
                       /\ log[i + 1].after.blocks = a.blocks
                       /\ log[i + 1].after.score = a.score
                       /\ status = GAMEOVER
                       /\ blocks = a.blocks
                       /\ score = a.score
            /\ ~full => /\ log[i + 1].after.status = PLAYING
                        /\ Len(log[i + 1].after.blocks) = Len(a.blocks) + GRID_COLS
                        /\ \A k \in DOMAIN a.blocks :
                              log[i + 1].after.blocks[k].row = a.blocks[k].row - 1
                        /\ status = PLAYING
                        /\ blocks = log[i + 1].after.blocks

\* a match removed the top tile of every column that reached row 0, and the
\* spawn after it succeeded
C17_Witness ==
  /\ status = PLAYING
  /\ mode = CLASSIC
  /\ \E i \in DOMAIN log :
        /\ log[i].op = "match"
        /\ HasRowZero(log[i].before.blocks)
        /\ ~HasRowZero(log[i].after.blocks)
        /\ i + 1 \in DOMAIN log
        /\ log[i + 1].op = "addRow"
        /\ ~log[i + 1].flag
        /\ Len(blocks) = Len(log[i].after.blocks) + GRID_COLS

\* the tile of bs with the given id
TileOf(bs, id) == bs[CHOOSE i \in DOMAIN bs : bs[i].id = id]

\* the steps of the last event that run on the grid of the step before them
GridSteps ==
  {i \in DOMAIN log : log[i].op \notin {"initGame", "target", "overflow"}}

\* C18: from its creation by initGame or addRow until a match removes it, a
\* tile keeps its id, its value and its column.  Its row changes by exactly
\* -1 in a successful spawn, does not decrease in the compaction of a match,
\* and does not change in any other step.  Tiles are created only by a
\* successful spawn (six, in the bottom row) and removed only by a match
\* (those of the selection).
C18_TileLife ==
  /\ \A i \in GridSteps :
        LET b == log[i].before.blocks
            a == log[i].after.blocks
            spawn == log[i].op = "addRow" /\ ~log[i].flag
        IN /\ \A k \in DOMAIN a :
                IF a[k].id \in Ids(b)
                THEN LET old == TileOf(b, a[k].id)
                     IN /\ a[k].value = old.value
                        /\ a[k].col = old.col
                        /\ IF spawn THEN a[k].row = old.row - 1
                           ELSE IF log[i].op = "match" THEN a[k].row >= old.row
                           ELSE a[k].row = old.row
                ELSE spawn /\ a[k].row = GRID_ROWS - 1
           /\ spawn => Cardinality(Ids(a) \ Ids(b)) = GRID_COLS
           /\ IF log[i].op = "match"
              THEN Ids(b) \ Ids(a) = Ids(b) \cap Range(log[i].ids)
              ELSE Ids(b) \subseteq Ids(a)
  /\ \A i, j \in GridSteps :
        (i < j /\ \A k \in GridSteps : ~(i < k /\ k < j))
          => log[j].before.blocks = log[i].after.blocks
  /\ \A i \in GridSteps :
        (\A k \in GridSteps : k <= i) => blocks = log[i].after.blocks

\* a tile fell in the compaction of a match and moved up in the spawn that
\* followed
C18_Witness ==
  \E i \in DOMAIN log :
    /\ log[i].op = "match"
    /\ i + 1 \in DOMAIN log
    /\ log[i + 1].op = "addRow"
    /\ ~log[i + 1].flag
    /\ \E k \in DOMAIN blocks :
          /\ blocks[k].id \in Ids(log[i].before.blocks)
          /\ TileOf(log[i].after.blocks, blocks[k].id).row
               > TileOf(log[i].before.blocks, blocks[k].id).row
          /\ blocks[k].row
               = TileOf(log[i].after.blocks, blocks[k].id).row - 1

\* C19: in every state between two events with status PLAYING the values
\* of the selected live tiles add up to less than the target.  When the
\* target is regenerated while tiles are selected (a row was spawned), a
\* selection that adds up to the new target is resolved as a match in the
\* same event, and one that exceeds it is cleared.
C19_SumBelowTarget ==
  /\ status = PLAYING => SelectedSum(Cells) < targetSum
  /\ \A i \in DOMAIN log :
        (log[i].op = "target" /\ log[i].after.status = PLAYING)
          => LET a == log[i].after
             IN /\ SelectedSum(a) = a.targetSum
                     => \E j \in DOMAIN log :
                          /\ j > i
                          /\ log[j].op = "match"
                          /\ log[j].ids = a.selectedIds
                /\ SelectedSum(a) > a.targetSum
                     => \E j \in DOMAIN log :
                          /\ j > i
                          /\ log[j].op = "overshoot"
                          /\ log[j].after.selectedIds = <<>>

\* the countdown ran out while tiles were selected: the row was spawned,
\* the new target was the sum of the selection, and the match was resolved
C19_Witness ==
  /\ status = PLAYING
  /\ Len(log) >= 3
  /\ log[1].op = "tick"
  /\ log[1].before.selectedIds # <<>>
  /\ log[2].op = "addRow"
  /\ ~log[2].flag
  /\ \E i, j \in DOMAIN log :
        /\ i < j
        /\ log[i].op = "target"
        /\ log[i].after.targetSum # log[1].before.targetSum
        /\ SelectedSum(log[i].after) = log[i].after.targetSum
        /\ log[j].op = "match"
  /\ selectedIds = <<>>

\* the indices of the tiles of column c
ColumnOf(bs, c) == {i \in DOMAIN bs : bs[i].col = c}

\* C20: in every state between two events every column is gap-free: a
\* column of h tiles occupies the rows 9, 8, ..., 9 - (h - 1), one tile in
\* each; so it is after initGame, after every successful spawn and after
\* every match.
C20_GapFree ==
  \A c \in 0..(GRID_COLS - 1) :
    LET h == Cardinality(ColumnOf(blocks, c))
    IN {blocks[i].row : i \in ColumnOf(blocks, c)}
         = (GRID_ROWS - h)..(GRID_ROWS - 1)

\* a match took tiles out of some columns, a spawn followed, and the
\* columns have different heights
C20_Witness ==
  /\ status = PLAYING
  /\ \E i, j \in DOMAIN log :
        /\ log[i].op = "match"
        /\ Len(log[i].after.blocks) < Len(log[i].before.blocks)
        /\ log[j].op = "addRow"
        /\ ~log[j].flag
  /\ \E c, d \in 0..(GRID_COLS - 1) :
        Cardinality(ColumnOf(blocks, c)) > Cardinality(ColumnOf(blocks, d))

\* the number of rows spawned into the grid bs of a session without matches
SpawnsIn(bs) == (Len(bs) - INITIAL_ROWS * GRID_COLS) \div GRID_COLS

\* the number of spawns after which the initial grid reaches row 0
SpawnsToTop == GRID_ROWS - INITIAL_ROWS

\* C21: a TIME session that is never paused and in which no tile is
\* clicked ends: while the ticks keep firing the status eventually becomes
\* GAMEOVER.  The grid reaches row 0 after exactly six successful spawns,
\* never earlier; the spawn attempted after these, the seventh, is rejected
\* and ends the game, and no earlier attempt is.
C21_TimeSessionEnds ==
  /\ []((mode = TIME /\ status \in {PLAYING, GAMEOVER})
          => /\ SpawnsIn(blocks) \in 0..SpawnsToTop
             /\ HasRowZero(blocks) <=> SpawnsIn(blocks) = SpawnsToTop
             /\ status = GAMEOVER => SpawnsIn(blocks) = SpawnsToTop
             /\ \A i \in DOMAIN log :
                   log[i].op = "addRow"
                     => /\ log[i].flag
                             <=> SpawnsIn(log[i].before.blocks) = SpawnsToTop
                        /\ log[i].flag <=> log[i].after.status = GAMEOVER
                        /\ ~log[i].flag
                             => SpawnsIn(log[i].after.blocks)
                                  = SpawnsIn(log[i].before.blocks) + 1)
  /\ (status = PLAYING /\ mode = TIME /\ SpawnsIn(blocks) = 0)
       ~> (status = GAMEOVER /\ SpawnsIn(blocks) = SpawnsToTop)

\* the timer of an untouched TIME session has ended it: the attempt after
\* the sixth spawn was rejected
C21_Witness ==
  /\ status = GAMEOVER
  /\ mode = TIME
  /\ score = 0
  /\ SpawnsIn(blocks) = SpawnsToTop
  /\ Len(log) = 2
  /\ log[1].op = "tick"
  /\ log[1].before.timeLeft = 1
  /\ log[2].op = "addRow"
  /\ log[2].flag
  /\ SpawnsIn(log[2].before.blocks) = SpawnsToTop

====
